---- MODULE Spec2Model ----
(***************************************************************************)
(* Model of the topic router of whatsappDemo (src/router.py).              *)
(*                                                                         *)
(* Scores and confidences are fixed-point hundredths: 18 stands for 0.18.  *)
(* A text is a sequence of characters; non-ASCII characters are written    *)
(* with ASCII names ("i_dotless" is the dotless i).  Python's None is      *)
(* NoneId for an Optional[int] and NoneStr for an Optional[str].           *)
(***************************************************************************)
EXTENDS Integers, Sequences, FiniteSets, TLC

VARIABLES
    topics,        \* TopicRouter.topics, the catalog
    use_gemini,    \* TopicRouter.use_gemini after __init__
    top_k,         \* TopicRouter.top_k
    min_score,     \* TopicRouter.min_score
    min_confidence,\* TopicRouter.min_confidence
    flag,          \* the use_gemini argument of __init__
    api_key,       \* whether GOOGLE_API_KEY / GEMINI_API_KEY was set at __init__
    user_text,     \* argument of the route call
    sims,          \* cosine similarity of user_text to each topic
    response,      \* what generate_content does for this call
    pc,            \* "call" before route runs, "done" after
    outcome,       \* what route gave its caller
    gate,          \* the gate of route that decided the call
    ranked,        \* whether _candidates ran
    shortlist,     \* the candidates _candidates returned
    llm_calls,     \* number of generate_content calls made
    source,        \* the tabular source load_topics reads
    load_pc,       \* "idle", "call" before load_topics runs, "done" after
    loaded,        \* what load_topics gave its caller, and what it logged
    frames,        \* the frames of the route calls running concurrently
    requests,      \* per user: the HTTP request the service holds for them
    loop,          \* the user whose handler occupies the event loop, or NoUser
    sessions,      \* WhatsAppBot.sessions: per user id, the Session or Absent
    now,           \* datetime.utcnow(), in seconds
    ttl,           \* WhatsAppBot.ttl, in seconds
    inactivity_timeout,  \* WhatsAppBot.inactivity_timeout, in seconds
    handled        \* the last handle_message call: its arguments and its reply

routerVars == <<topics, use_gemini, top_k, min_score, min_confidence, flag, api_key,
                user_text, sims, response, pc, outcome, gate, ranked, shortlist,
                llm_calls>>

loaderVars == <<source, load_pc, loaded>>

serveVars == <<requests, loop>>

botVars == <<sessions, now, ttl, inactivity_timeout, handled>>

vars == <<routerVars, loaderVars, frames, serveVars, botVars>>

config == <<topics, use_gemini, top_k, min_score, min_confidence, flag, api_key>>

-----------------------------------------------------------------------------
(* Bounds *)

MaxLen == 5        \* longest user text
MaxRespLen == 4    \* longest LLM response text, in tokens

-----------------------------------------------------------------------------
(* Values *)

NoneId == -1
NoneStr == "None"
Scale == 100

DefaultTopK == 8
DefaultMinConfidence == 55
DefaultMinScore == 18

Max(a, b) == IF a >= b THEN a ELSE b
Min(a, b) == IF a <= b THEN a ELSE b

\* RouteResult(...): the pydantic response model
RouteResult(m, id, topic, unit, conf, q) ==
    [matched |-> m, topic_id |-> id, topic |-> topic, unit |-> unit,
     confidence |-> conf, clarification_question |-> q]

\* Candidate(...)
Candidate(t, score) ==
    [id |-> t.id, konu |-> t.konu, birim |-> t.birim, score |-> score]

\* RouteDecision(result, options), or the exception that left route
Returned(result, options) ==
    [kind |-> "returned", result |-> result, options |-> options]

NoResult == RouteResult(FALSE, NoneId, NoneStr, NoneStr, 0, NoneStr)

Raised == [kind |-> "raised", result |-> NoResult, options |-> <<>>]

NotCalled == [kind |-> "none", result |-> NoResult, options |-> <<>>]

-----------------------------------------------------------------------------
(* Text of the user: strip, isalpha, vowels *)

Vowels == {"a", "e", "i", "o", "u", "i_dotless", "I_dotted", "o_uml", "O_uml",
           "u_uml", "U_uml", "O", "E", "A", "I", "U"}

Whitespace == {" "}

Consonants == {"k", "K", "z", "x", "w", "c", "p", "t", "l", "n", "m", "d"}

IsAlpha(ch) == ch \in Vowels \cup Consonants

RECURSIVE LStrip(_)
LStrip(s) ==
    IF s = <<>> THEN <<>>
    ELSE IF Head(s) \in Whitespace THEN LStrip(Tail(s))
    ELSE s

RECURSIVE RStrip(_)
RStrip(s) ==
    IF s = <<>> THEN <<>>
    ELSE IF s[Len(s)] \in Whitespace THEN RStrip(SubSeq(s, 1, Len(s) - 1))
    ELSE s

Strip(s) == RStrip(LStrip(s))

IsVowel(ch) == ch \in Vowels

\* letters = sum(1 for ch in user_text if ch.isalpha())
Letters(s) == Cardinality({i \in 1..Len(s) : IsAlpha(s[i])})

\* vowel_count = sum(1 for ch in user_text if ch in vowels)
VowelCount(s) == Cardinality({i \in 1..Len(s) : IsVowel(s[i])})

LengthGateNoStrip(text) == Len(text) < 4

\* if len(user_text.strip()) < 4
LengthGate(text) == Len(Strip(text)) < 4

PseudoWordGateLowercaseOnly(text) ==
    /\ Letters(text) >= 4
    /\ \A i \in 1..Len(text) :
           text[i] \notin {"a", "e", "i", "o", "u", "i_dotless", "o_uml", "u_uml"}

\* if letters >= 4: ... if vowel_count == 0
PseudoWordGate(text) ==
    /\ Letters(text) >= 4
    /\ VowelCount(text) = 0

-----------------------------------------------------------------------------
(* Catalog and lexical shortlist *)

\* A catalog as load_topics returns it: ids pairwise distinct, not in id order
Catalog ==
    << [id |-> 12, konu |-> "Sokak Lambasi Arizasi", birim |-> "Aydinlatma Birimi"],
       [id |-> 7,  konu |-> "Cop Toplama",           birim |-> "Temizlik Isleri"],
       [id |-> 30, konu |-> "Yol Cukuru",            birim |-> "Fen Isleri"] >>

Reverse(s) == [i \in 1..Len(s) |-> s[Len(s) + 1 - i]]

\* seq[:k] for k >= 0
Take(s, k) == SubSeq(s, 1, Min(k, Len(s)))

\* sims.argsort(): the index orders that put the scores in ascending order.
\* numpy's default sort kind is not stable, so equal scores may come in any
\* order.
ArgSorts(s) ==
    {p \in [1..Len(s) -> 1..Len(s)] :
        /\ \A i, j \in 1..Len(s) : i # j => p[i] # p[j]
        /\ \A i, j \in 1..Len(s) : i < j => s[p[i]] <= s[p[j]]}

CandidatesAscending(order) ==
    LET idxs == Take(order, top_k)
    IN  [n \in 1..Len(idxs) |-> Candidate(topics[idxs[n]], sims[idxs[n]])]

\* Lines 83-89: the top_k entries of the similarities s, best first
Shortlist(s, order) ==
    LET idxs == Take(Reverse(order), top_k)
    IN  [n \in 1..Len(idxs) |-> Candidate(topics[idxs[n]], s[idxs[n]])]

\* _candidates, given the argsort order of the similarities
Candidates(order) == Shortlist(sims, order)

-----------------------------------------------------------------------------
(* The LLM response and its parsing *)

\* Tokens of a response text: "J" is the body of a JSON object, "x" is
\* any other text.
RespTokens == {"{", "}", "J", "x", " "}

\* RouteResult's field constraint on confidence: ge=0.0, le=1.0
SchemaValid(p) == p.confidence >= 0 /\ p.confidence <= Scale

\* RouteResult.model_validate_json(text) succeeds
ValidatesJson(text, payload) ==
    /\ SelectSeq(text, LAMBDA tok : tok \notin Whitespace) = <<"{", "J", "}">>
    /\ SchemaValid(payload)

\* str.find: 0-based index of the first occurrence, -1 when absent
Find(s, tok) ==
    IF \E i \in 1..Len(s) : s[i] = tok
    THEN (CHOOSE i \in 1..Len(s) : s[i] = tok /\ \A j \in 1..(i - 1) : s[j] # tok) - 1
    ELSE -1

\* str.rfind: 0-based index of the last occurrence, -1 when absent
RFind(s, tok) ==
    IF \E i \in 1..Len(s) : s[i] = tok
    THEN (CHOOSE i \in 1..Len(s) : s[i] = tok /\ \A j \in (i + 1)..Len(s) : s[j] # tok) - 1
    ELSE -1

\* s[start : end + 1] with 0-based start, end
Slice(s, start, end) == SubSeq(s, start + 1, end + 1)

\* Lines 182-206: the parsed object, an exception, or the lexical fallback
Parse(resp) ==
    IF resp.kind = "parsed" THEN [status |-> "ok", value |-> resp.answer]
    ELSE IF resp.kind = "text" /\ ValidatesJson(resp.text, resp.answer)
    THEN [status |-> "ok", value |-> resp.answer]
    ELSE
        LET txt   == Strip(IF resp.kind = "text" THEN resp.text ELSE <<>>)
            start == Find(txt, "{")
            end   == RFind(txt, "}")
        IN  IF start # -1 /\ end # -1 /\ end > start
            THEN IF ValidatesJson(Slice(txt, start, end), resp.answer)
                 THEN [status |-> "ok", value |-> resp.answer]
                 ELSE [status |-> "raise", value |-> resp.answer]
            ELSE [status |-> "fallback", value |-> resp.answer]

-----------------------------------------------------------------------------
(* The decision policy *)

NoMatch(conf) ==
    Returned(RouteResult(FALSE, NoneId, NoneStr, NoneStr, conf, NoneStr), <<>>)

\* Lines 142-152
NoLlmResult(best) ==
    RouteResult(TRUE, best.id, best.konu, best.birim,
                Min(95, Max(20, best.score)), NoneStr)

FallbackResultClamp95(best) ==
    RouteResult(TRUE, best.id, best.konu, best.birim,
                Min(95, Max(20, best.score)), NoneStr)

\* Lines 197-205 and 225-233
FallbackResult(best) ==
    RouteResult(TRUE, best.id, best.konu, best.birim,
                Min(60, Max(20, best.score)), NoneStr)

\* result.topic_id in tmap
InTMap(id) == \E i \in 1..Len(topics) : topics[i].id = id

\* tmap[id], tmap = {t.id: t for t in self.topics}: a later topic replaces an
\* earlier one with the same id
TMap(id) ==
    topics[CHOOSE i \in 1..Len(topics) :
               /\ topics[i].id = id
               /\ \A j \in (i + 1)..Len(topics) : topics[j].id # id]

TrustedStrictlyAbove(parsed) ==
    /\ parsed.matched
    /\ InTMap(parsed.topic_id)
    /\ parsed.confidence > min_confidence

\* Line 212
Trusted(parsed) ==
    /\ parsed.matched
    /\ InTMap(parsed.topic_id)
    /\ parsed.confidence >= min_confidence

TrustedResultEcho(parsed) ==
    RouteResult(TRUE, parsed.topic_id, parsed.topic, parsed.unit,
                parsed.confidence, NoneStr)

TrustedResultKeepsQuestion(parsed) ==
    LET t == TMap(parsed.topic_id)
    IN  RouteResult(TRUE, t.id, t.konu, t.birim, parsed.confidence,
                    parsed.clarification_question)

\* Lines 213-221
TrustedResult(parsed) ==
    LET t == TMap(parsed.topic_id)
    IN  RouteResult(TRUE, t.id, t.konu, t.birim, parsed.confidence, NoneStr)

Step(out, g, calls) == [outcome |-> out, gate |-> g, llm_calls |-> calls]

RefinePropagates(candidates, resp) ==
    IF resp.kind = "error" THEN Step(Raised, "llm", 1)
    ELSE
        LET p == Parse(resp)
        IN  IF p.status = "raise" THEN Step(Raised, "llm", 1)
            ELSE IF p.status = "fallback"
            THEN Step(Returned(FallbackResult(candidates[1]), <<>>), "llm", 1)
            ELSE IF Trusted(p.value)
            THEN Step(Returned(TrustedResult(p.value), <<>>), "llm", 1)
            ELSE Step(Returned(p.value, <<>>), "llm", 1)

\* Lines 172-234: one generate_content call, then parse and validate
Refine(candidates, resp) ==
    IF resp.kind = "error" THEN Step(Raised, "llm", 1)
    ELSE
        LET p == Parse(resp)
        IN  IF p.status = "raise" THEN Step(Raised, "llm", 1)
            ELSE IF p.status = "fallback"
            THEN Step(Returned(FallbackResult(candidates[1]), <<>>), "llm", 1)
            ELSE IF Trusted(p.value)
            THEN Step(Returned(TrustedResult(p.value), <<>>), "llm", 1)
            ELSE Step(Returned(FallbackResult(candidates[1]), <<>>), "llm", 1)

AfterShortlistNoLlmFirst(candidates, resp) ==
    IF candidates = <<>> THEN Step(NoMatch(0), "empty", 0)
    ELSE IF ~use_gemini
    THEN Step(Returned(NoLlmResult(candidates[1]), <<>>), "no_llm", 0)
    ELSE IF candidates[1].score < min_score
    THEN Step(NoMatch(candidates[1].score), "min_score", 0)
    ELSE Refine(candidates, resp)

\* Lines 119-152, then the refinement
AfterShortlist(candidates, resp) ==
    IF candidates = <<>> THEN Step(NoMatch(0), "empty", 0)
    ELSE IF candidates[1].score < min_score
    THEN Step(NoMatch(candidates[1].score), "min_score", 0)
    ELSE IF ~use_gemini
    THEN Step(Returned(NoLlmResult(candidates[1]), <<>>), "no_llm", 0)
    ELSE Refine(candidates, resp)

\* TopicRouter.route
Route ==
    /\ pc = "call"
    /\ pc' = "done"
    /\ IF LengthGate(user_text)
       THEN /\ outcome' = NoMatch(0)
            /\ gate' = "length"
            /\ ranked' = FALSE
            /\ shortlist' = <<>>
            /\ llm_calls' = 0
       ELSE IF PseudoWordGate(user_text)
       THEN /\ outcome' = NoMatch(0)
            /\ gate' = "pseudo_word"
            /\ ranked' = FALSE
            /\ shortlist' = <<>>
            /\ llm_calls' = 0
       ELSE \E order \in ArgSorts(sims) :
                LET candidates == Candidates(order)
                    r == AfterShortlist(candidates, response)
                IN  /\ outcome' = r.outcome
                    /\ gate' = r.gate
                    /\ ranked' = TRUE
                    /\ shortlist' = candidates
                    /\ llm_calls' = r.llm_calls
    /\ UNCHANGED <<config, user_text, sims, response, loaderVars, frames, serveVars,
                   botVars>>

-----------------------------------------------------------------------------
(* route calls running concurrently on one router *)

\* Number of concurrent calls explored
MaxCalls == 2

Threads == 1..MaxCalls

\* The frame of a route call: its arguments, the response its LLM call
\* gets, where it is, its local candidates and what it returned.
\* overlapped remembers that another call was inside its LLM call when
\* this one came back from its own.
Call(text, s, resp, at, candidates, out, overlapped) ==
    [user_text |-> text, sims |-> s, response |-> resp, pc |-> at,
     candidates |-> candidates, outcome |-> out, overlapped |-> overlapped]

SharedCandidates(t) == shortlist

\* The local variable candidates of the call's frame (line 118)
LocalCandidates(t) == frames[t].candidates

\* Lines 119-152 passed: the call goes on to generate_content
ReachesLlm(candidates) ==
    /\ candidates # <<>>
    /\ candidates[1].score >= min_score
    /\ use_gemini

\* Lines 92-171: the call runs up to its return before the LLM call, or up
\* to the LLM call.  shortlist remembers the last result of _candidates.
Enter(t) ==
    /\ frames[t].pc = "start"
    /\ IF LengthGate(frames[t].user_text) \/ PseudoWordGate(frames[t].user_text)
       THEN /\ frames' = [frames EXCEPT ![t].pc = "done", ![t].outcome = NoMatch(0)]
            /\ UNCHANGED shortlist
       ELSE \E order \in ArgSorts(frames[t].sims) :
                LET candidates == Shortlist(frames[t].sims, order)
                IN  /\ shortlist' = candidates
                    /\ frames' =
                        IF ReachesLlm(candidates)
                        THEN [frames EXCEPT ![t].pc = "llm",
                                           ![t].candidates = candidates]
                        ELSE [frames EXCEPT
                                ![t].pc = "done",
                                ![t].candidates = candidates,
                                ![t].outcome =
                                    AfterShortlist(candidates, frames[t].response).outcome]
    /\ UNCHANGED <<config, user_text, sims, response, pc, outcome, gate, ranked,
                   llm_calls, loaderVars, serveVars, botVars>>

\* Lines 172-234: generate_content comes back and the call returns
LlmReturn(t) ==
    /\ frames[t].pc = "llm"
    /\ frames' = [frames EXCEPT
                    ![t].pc = "done",
                    ![t].outcome = Refine(LocalCandidates(t), frames[t].response).outcome,
                    ![t].overlapped = \E u \in Threads \ {t} : frames[u].pc = "llm"]
    /\ UNCHANGED <<routerVars, loaderVars, serveVars, botVars>>

NoCall == Call(<<>>, <<>>, [kind |-> "none"], "idle", <<>>, NotCalled, FALSE)

\* No concurrent calls
NoCalls == frames = [t \in Threads |-> NoCall]

-----------------------------------------------------------------------------
(* The HTTP service (src/app.py): coroutine handlers on one event loop *)

\* Number of users explored
MaxUsers == 3

\* Number of messages of one user explored
MaxMessages == 2

Users == 1..MaxUsers

NoUser == 0

\* status: "idle" no request, "queued" the request is received and its
\* handler is waiting for the event loop, "in_llm" its handler is inside
\* generate_content.  needs_llm: handling the message routes it through
\* the LLM.  replies: responses sent to the user so far.
Request(status, needs_llm, replies) ==
    [status |-> status, needs_llm |-> needs_llm, replies |-> replies]

\* The service with no request
ServeIdle ==
    /\ requests = [u \in Users |-> Request("idle", FALSE, 0)]
    /\ loop = NoUser

\* A message of user u arrives: the body is awaited (app.py:181, 308)
\* and the handler is ready to go on
Receive(u) ==
    /\ requests[u].status = "idle"
    /\ requests[u].replies < MaxMessages
    /\ \E needs_llm \in BOOLEAN :
           requests' = [requests EXCEPT ![u] = Request("queued", needs_llm, @.replies)]
    /\ UNCHANGED <<loop, routerVars, loaderVars, frames, botVars>>

\* The event loop resumes the handler of u, which calls bot.handle_message
\* in the coroutine itself (app.py:190, 314): the loop is occupied until
\* the call returns.  A message that is not routed through the LLM is
\* answered in the same step.
Handle(u) ==
    /\ requests[u].status = "queued"
    /\ loop = NoUser
    /\ IF requests[u].needs_llm
       THEN /\ requests' = [requests EXCEPT ![u].status = "in_llm"]
            /\ loop' = u
       ELSE /\ requests' = [requests EXCEPT ![u] = Request("idle", FALSE, @.replies + 1)]
            /\ UNCHANGED loop
    /\ UNCHANGED <<routerVars, loaderVars, frames, botVars>>

\* generate_content comes back (router.py:172), handle_message returns
\* and the handler sends its response and leaves the loop
Resume(u) ==
    /\ requests[u].status = "in_llm"
    /\ loop = u
    /\ requests' = [requests EXCEPT ![u] = Request("idle", FALSE, @.replies + 1)]
    /\ loop' = NoUser
    /\ UNCHANGED <<routerVars, loaderVars, frames, botVars>>

-----------------------------------------------------------------------------
(* The texts of the dialogue (src/bot.py).  A text is the sequence of its
   words; the empty sequence is the empty message. *)

\* Optional[str] None in a Session field
NoText == <<"None">>

\* Python truthiness of an Optional[str]
Truthy(text) == text # NoText /\ text # <<>>

\* Per word: its number of characters, whether all are digits, whether
\* one is a letter, whether one is among the dangerous characters of
\* _is_valid_name, and how many are digits
WordInfo(len, digits, alpha, dangerous, ndigits) ==
    [len |-> len, digits |-> digits, alpha |-> alpha, dangerous |-> dangerous,
     ndigits |-> ndigits]

LetterWord(n) == WordInfo(n, FALSE, TRUE, FALSE, 0)

\* The words of the texts explored
Vocabulary ==
    [w \in {"Merhaba", "1", "yardim", "Cop!", "robot", "musun", "ali", "veli",
            "tc", "12345678901", "mahalle", "sokak", "hayir", "yol", "bozuk"} |->
        CASE w = "1" -> WordInfo(1, TRUE, FALSE, FALSE, 1)
          [] w = "12345678901" -> WordInfo(11, TRUE, FALSE, FALSE, 11)
          [] w = "tc" -> LetterWord(2)
          [] w \in {"ali", "yol"} -> LetterWord(3)
          [] w \in {"veli", "Cop!"} -> LetterWord(4)
          [] w \in {"robot", "musun", "hayir", "sokak", "bozuk"} -> LetterWord(5)
          [] w = "yardim" -> LetterWord(6)
          [] w \in {"Merhaba", "mahalle"} -> LetterWord(7)]

RECURSIVE NormalizeText(_)
\* _normalize_text: the words left after normalization.  Lines 307-310
\* on one word: casefold, fold the Turkish letters, replace what is
\* neither a word character nor whitespace by a space
NormalizeText(text) ==
    LET NormalizeWord(w) ==
            CASE w = "Merhaba" -> <<"merhaba">>
              [] w = "Cop!" -> <<"cop">>
              [] OTHER -> <<w>>
    IN  IF text = <<>> THEN <<>>
        ELSE NormalizeWord(Head(text)) \o NormalizeText(Tail(text))

NormInfo(w) ==
    IF w \in DOMAIN Vocabulary THEN Vocabulary[w]
    ELSE LetterWord(IF w = "cop" THEN 3 ELSE 7)

RECURSIVE SumLen(_)
SumLen(words) ==
    IF words = <<>> THEN 0 ELSE NormInfo(Head(words)).len + SumLen(Tail(words))

\* len() of the text made of these words joined by single spaces
TextLen(words) == IF words = <<>> THEN 0 ELSE SumLen(words) + Len(words) - 1

Tokens(words) == {words[i] : i \in 1..Len(words)}

\* _should_send_welcome: text.strip().lower() is among the greetings of
\* lines 98-109
ShouldSendWelcome(text) ==
    LET LowerWord(w) ==
            CASE w = "Merhaba" -> "merhaba"
              [] w = "Cop!" -> "cop!"
              [] OTHER -> w
        normalized == [i \in 1..Len(text) |-> LowerWord(text[i])]
        greetings ==
            { <<"merhaba">>, <<"selam">>, <<"selamlar">>, <<"gunaydin">>,
              <<"iyi", "gunler">>, <<"iyi", "aksamlar">>, <<"iyi", "geceler">>,
              <<"hello">>, <<"hi">>, <<"hey">> }
    IN  text = <<>> \/ normalized \in greetings

\* _parse_category_choice; "none" is None.  Normalization removes the
\* dot, so "1." arrives as "1".
ParseCategoryChoice(text) ==
    LET normalized == NormalizeText(text)
    IN  CASE normalized = <<>> -> "none"
          [] normalized \in {<<"1">>, <<"talep">>, <<"talep", "olusturma">>} -> "request"
          [] normalized \in {<<"2">>, <<"egitim">>, <<"egitim", "ve", "kurs">>, <<"kurs">>}
                -> "education"
          [] normalized \in {<<"3">>, <<"yardim">>, <<"yardimlar">>} -> "social_aid"
          [] normalized \in {<<"4">>, <<"kutuphane">>, <<"randevu">>,
                             <<"millet", "kutuphanesi">>} -> "library"
          [] normalized \in {<<"5">>, <<"eczane">>, <<"nobetci", "eczane">>} -> "pharmacy"
          [] OTHER -> "none"

\* _looks_like_municipal: a keyword is a substring of the normalized
\* text.  keywords: the one-word keywords of the source; the two-word
\* keyword "sokak hayvani" is found only where "sokak" is.  InWord: key in
\* word, for the normalized words of the vocabulary ("musun" contains "su")
LooksLikeMunicipal(text) ==
    LET normalized == NormalizeText(text)
        keywords ==
            {"cop", "temizlik", "konteyner", "yol", "asfalt", "cukur", "kaldirim",
             "park", "bahce", "yesil", "agac", "budama", "sokak", "mahalle", "cadde",
             "lamba", "lambasi", "yanmiyor", "yanmadi", "aydinlatma", "zabita",
             "gurultu", "trafik", "otopark", "ruhsat", "pazar", "sosyal", "yardim",
             "su", "kanal", "kanalizasyon", "altyapi", "hayvan"}
        InWord(key, w) == key = w \/ (key = "su" /\ w = "musun")
    IN  /\ normalized # <<>>
        /\ \E key \in keywords : \E w \in Tokens(normalized) : InWord(key, w)

\* _is_valid_address
IsValidAddress(text) ==
    LET normalized == NormalizeText(text)
        tokens == Tokens(normalized)
        has_area == tokens \cap {"mahalle", "mahallesi", "mah"} # {}
        has_street == tokens \cap {"sokak", "sokagi", "sok", "cadde", "caddesi", "cad",
                                   "bulvar", "bulvari", "blv"} # {}
        has_number ==
            /\ \E w \in tokens : NormInfo(w).digits /\ NormInfo(w).len <= 4
            /\ tokens \cap {"no", "numara", "daire", "kat", "blok"} # {}
    IN  /\ normalized # <<>>
        /\ \/ has_area /\ has_street
           \/ has_area /\ has_number
           \/ has_street /\ has_number

\* Lines 231-260 for the words of the vocabulary: the probe words and the
\* probe phrase "robot musun"; the money phrases, the digit patterns and
\* the other probe phrases need words outside the vocabulary
IsOutOfScopeOrAbuse(text) ==
    LET normalized == NormalizeText(text)
        tokens == Tokens(normalized)
    IN  /\ normalized # <<>>
        /\ TextLen(normalized) >= 4
        /\ \/ tokens \cap {"yapay", "zeka", "robot", "bot", "kimlik", "kimsin",
                           "aslinda", "ai", "yapayzeka"} # {}
           \/ \E i \in 1..(Len(normalized) - 1) :
                  normalized[i] = "robot" /\ normalized[i + 1] = "musun"

\* _looks_like_confusion_or_rejection: the one-word entries and the phrase
\* "anlamadin ki"; the other phrases are made of words outside the
\* vocabulary
LooksLikeConfusion(text) ==
    LET normalized == NormalizeText(text)
        tokens == Tokens(normalized)
    IN  /\ normalized # <<>>
        /\ \/ tokens \cap {"neyi", "neden", "nasil", "ne", "niye", "anladin",
                           "anlamadim", "anlamiyorum", "diyorsun", "yapiyorsun",
                           "istemiyorum", "hayir", "olmaz", "yok", "secmedim",
                           "komsum", "selam", "merhaba"} # {}
           \/ \E i \in 1..(Len(normalized) - 1) :
                  normalized[i] = "anlamadin" /\ normalized[i + 1] = "ki"

\* _is_valid_name, on the stripped text
IsValidName(text) ==
    /\ TextLen(text) >= 3
    /\ ~LooksLikeConfusion(text)
    /\ Len(text) <= 4
    /\ TextLen(text) <= 40
    /\ ~(Len(text) = 1 /\ NormInfo(text[1]).digits)
    /\ ~\E i \in 1..Len(text) : NormInfo(text[i]).dangerous
    /\ \E i \in 1..Len(text) : NormInfo(text[i]).alpha

\* _is_negative_response
IsNegativeResponse(text) ==
    LET normalized == NormalizeText(text)
        phrases == { <<"gerek", "yok">>, <<"yok", "tesekkurler">>, <<"yok", "sagol">>,
                     <<"yok", "sagolun">>, <<"sag", "olun">>, <<"yok", "istemiyorum">> }
    IN  \/ normalized = <<>>
        \/ normalized \in {<<"hayir">>, <<"yok">>, <<"tesekkur">>, <<"tesekkurler">>,
                           <<"sagol">>} \cup phrases
        \/ \E i \in 1..(Len(normalized) - 1) :
               <<normalized[i], normalized[i + 1]>> \in phrases

\* Line 483: re.sub(r"\D", "", normalized), as the digit runs of its words
TcClean(text) == SelectSeq(text, LAMBDA w : NormInfo(w).ndigits > 0)

RECURSIVE DigitCount(_)
\* len(tc_clean)
DigitCount(text) ==
    IF text = <<>> THEN 0 ELSE NormInfo(Head(text)).ndigits + DigitCount(Tail(text))

-----------------------------------------------------------------------------
(* The dialogue (src/bot.py): WhatsAppBot.handle_message *)

DefaultTtl == 30

DefaultInactivity == 60

\* Session; last_unit is never assigned
Session(stage, last_seen, name, tc, address, issue) ==
    [stage |-> stage, last_seen |-> last_seen, name |-> name, tc |-> tc,
     address |-> address, issue |-> issue, last_unit |-> NoText]

\* self.sessions has no entry for the user
Absent == Session("absent", 0, NoText, NoText, NoText, NoText)

\* Lines 392 and 402
NewSession(t) == Session("awaiting_category", t, NoText, NoText, NoText, NoText)

\* What a handle_message call leaves: the session, the reply ("exception"
\* when the call raises), the text given to the router (NoText when it
\* was not invoked), what the router did, and the session as it was when
\* the router was invoked (Absent when it was not)
Outcome(s, reply, routed, route, at_route) ==
    [session |-> s, reply |-> reply, routed |-> routed, route |-> route,
     at_route |-> at_route]

Reply(s, reply) == Outcome(s, reply, NoText, "none", Absent)

\* What router.route does with the issue: a matched result, an unmatched
\* one, or an exception that leaves route
RouteResults == {"matched", "unmatched", "raised"}

\* _maybe_store_issue
MaybeStoreIssue(s, text) ==
    IF Truthy(s.issue) THEN s
    ELSE IF LooksLikeMunicipal(text) /\ ~IsValidAddress(text)
    THEN [s EXCEPT !.issue = text]
    ELSE s

\* _finalize_request
FinalizeRequestResets(s, issue_text, route) ==
    IF route = "raised" THEN Outcome(s, "exception", issue_text, route, s)
    ELSE IF route = "unmatched"
    THEN Outcome([s EXCEPT !.stage = "awaiting_category", !.name = NoText,
                           !.tc = NoText, !.address = NoText],
                 IF LooksLikeMunicipal(issue_text) THEN "unclear_issue"
                 ELSE "not_municipal",
                 issue_text, route, s)
    ELSE Outcome([s EXCEPT !.stage = "awaiting_followup", !.name = NoText,
                           !.tc = NoText, !.address = NoText, !.issue = NoText],
                 "request_taken", issue_text, route, s)

\* _finalize_request
FinalizeRequest(s, issue_text, route) ==
    IF route = "raised" THEN Outcome(s, "exception", issue_text, route, s)
    ELSE IF route = "unmatched"
    THEN Outcome([s EXCEPT !.stage = "awaiting_issue"],
                 IF LooksLikeMunicipal(issue_text) THEN "unclear_issue"
                 ELSE "not_municipal",
                 issue_text, route, s)
    ELSE Outcome([s EXCEPT !.stage = "awaiting_followup", !.name = NoText,
                           !.tc = NoText, !.address = NoText, !.issue = NoText],
                 "request_taken", issue_text, route, s)

\* Lines 415-455
InCategory(s, text) ==
    LET choice == ParseCategoryChoice(text)
    IN  IF text = <<>> THEN Reply(s, "osman_empty")
        ELSE IF choice = "request"
        THEN Reply([s EXCEPT !.stage = "awaiting_name"],
                   IF Truthy(s.issue) THEN "noted_ask_name" ELSE "ask_name")
        ELSE IF choice \in {"education", "social_aid", "library", "pharmacy"}
        THEN Reply(s, "not_ready")
        ELSE IF IsOutOfScopeOrAbuse(text) THEN Reply(s, "out_of_scope")
        ELSE IF LooksLikeMunicipal(text)
        THEN Reply([s EXCEPT !.issue = text, !.stage = "awaiting_name"], "noted_ask_name")
        ELSE IF LooksLikeConfusion(text) THEN Reply(s, "osman_greeting")
        ELSE Reply(s, "osman_unclear")

\* Lines 457-474
InName(s, text) ==
    IF IsOutOfScopeOrAbuse(text)
    THEN Reply([s EXCEPT !.stage = "awaiting_category"], "out_of_scope")
    ELSE IF ~IsValidName(text) THEN Reply(s, "osman_ask_name")
    ELSE Reply([s EXCEPT !.name = text, !.stage = "awaiting_tc"], "ask_tc")

InTcAnyDigits(s, text) ==
    IF IsOutOfScopeOrAbuse(text)
    THEN Reply([s EXCEPT !.stage = "awaiting_category"], "out_of_scope")
    ELSE IF DigitCount(TcClean(text)) >= 1
    THEN Reply([s EXCEPT !.tc = TcClean(text), !.stage = "awaiting_address"],
               "osman_ask_address")
    ELSE IF LooksLikeConfusion(text) THEN Reply(s, "osman_tc_confusion")
    ELSE Reply(s, "osman_tc_format")

\* Lines 476-502
InTc(s, text) ==
    IF IsOutOfScopeOrAbuse(text)
    THEN Reply([s EXCEPT !.stage = "awaiting_category"], "out_of_scope")
    ELSE IF DigitCount(TcClean(text)) = 11
    THEN Reply([s EXCEPT !.tc = TcClean(text), !.stage = "awaiting_address"],
               "osman_ask_address")
    ELSE IF LooksLikeConfusion(text) THEN Reply(s, "osman_tc_confusion")
    ELSE Reply(s, "osman_tc_format")

InAddressAlwaysAsks(s, text, route) ==
    IF ~IsValidAddress(text) THEN Reply(s, "osman_ask_address_again")
    ELSE Reply([s EXCEPT !.address = text, !.stage = "awaiting_issue"], "ask_issue")

\* Lines 504-517
InAddress(s, text, route) ==
    IF ~IsValidAddress(text) THEN Reply(s, "osman_ask_address_again")
    ELSE IF Truthy(s.issue)
    THEN FinalizeRequest([s EXCEPT !.address = text], s.issue, route)
    ELSE Reply([s EXCEPT !.address = text, !.stage = "awaiting_issue"], "ask_issue")

\* Lines 522-535
InFollowup(s, text) ==
    IF IsNegativeResponse(text)
    THEN Reply([s EXCEPT !.stage = "awaiting_category"], "goodbye")
    ELSE IF NormalizeText(text) \in {<<"evet">>, <<"var">>, <<"tabii">>, <<"peki">>,
                                     <<"olur">>}
    THEN Reply([s EXCEPT !.stage = "awaiting_category"], "write_new")
    ELSE IF LooksLikeMunicipal(text)
    THEN Reply([s EXCEPT !.issue = text, !.stage = "awaiting_name"], "osman_new_request")
    ELSE Reply([s EXCEPT !.stage = "awaiting_category"], "write_more")

\* Lines 411-537: the stages
Dispatch(s, text, route) ==
    CASE s.stage = "awaiting_category" -> InCategory(s, text)
      [] s.stage = "awaiting_name" -> InName(s, text)
      [] s.stage = "awaiting_tc" -> InTc(s, text)
      [] s.stage = "awaiting_address" -> InAddress(s, text, route)
      [] s.stage = "awaiting_issue" -> FinalizeRequest(s, text, route)
      [] s.stage = "awaiting_followup" -> InFollowup(s, text)
      [] OTHER -> Reply(s, "how_can_i_help")

GetSessionAtLimit(s, t) ==
    IF s = Absent THEN Absent
    ELSE IF t - s.last_seen >= ttl THEN Absent
    ELSE s

\* _get_session at time t
GetSession(s, t) ==
    IF s = Absent THEN Absent
    ELSE IF t - s.last_seen > ttl THEN Absent
    ELSE s

\* handle_message on the stored session s at time t.  opened: why the
\* call made a new Session ("first" message, "ttl", "inactivity") or "no".
\* entered: the session the message was handled in, as it was at line 408.
HandleMessageAt(s, text, t, route) ==
    LET got    == GetSession(s, t)
        opened == IF s = Absent THEN "first"
                  ELSE IF got = Absent THEN "ttl"
                  ELSE IF t - got.last_seen > inactivity_timeout THEN "inactivity"
                  ELSE "no"
        s1     == IF opened # "no" THEN NewSession(t) ELSE got
        s2     == [s1 EXCEPT !.last_seen = t]
        s3     == IF s2.stage \in {"awaiting_category", "awaiting_name", "awaiting_tc"}
                  THEN MaybeStoreIssue(s2, text)
                  ELSE s2
    IN  [opened |-> opened,
         entered |-> s2,
         out |-> IF opened # "no" /\ ShouldSendWelcome(text) THEN Reply(s1, "welcome")
                 ELSE Dispatch(s3, text, route)]

\* The last handle_message call; calls: how many calls the inbound
\* message it belongs to has made
Handled(user, text, opened, entered, out) ==
    [user |-> user, text |-> text, opened |-> opened, entered |-> entered,
     reply |-> out.reply, routed |-> out.routed, route |-> out.route,
     at_route |-> out.at_route, calls |-> 1]

NoneHandled ==
    [Handled("nobody", <<>>, "no", Absent, Reply(Absent, "none")) EXCEPT !.calls = 0]

StoreAndSweep(user_id, s) ==
    [u \in DOMAIN sessions |->
        IF u = user_id THEN s
        ELSE IF sessions[u] # Absent /\ now - sessions[u].last_seen > ttl THEN Absent
        ELSE sessions[u]]

\* self.sessions after the call: the entry of user_id is the session the
\* call worked on (lines 351, 393, 401-403 and the in-place updates)
Store(user_id, s) == [sessions EXCEPT ![user_id] = s]

\* No bot
BotIdle ==
    /\ sessions = <<>>
    /\ now = 0
    /\ ttl = DefaultTtl
    /\ inactivity_timeout = DefaultInactivity
    /\ handled = NoneHandled

\* handle_message(user_id, text)
HandleMessage(user_id, text) ==
    /\ user_id \in DOMAIN sessions
    /\ LET any == HandleMessageAt(sessions[user_id], text, now, "matched")
       IN  \E route \in IF any.out.route = "none" THEN {"matched"} ELSE RouteResults :
               LET r == IF route = "matched" THEN any
                        ELSE HandleMessageAt(sessions[user_id], text, now, route)
               IN  /\ sessions' = Store(user_id, r.out.session)
                   /\ handled' = Handled(user_id, text, r.opened, r.entered, r.out)
    /\ UNCHANGED <<now, ttl, inactivity_timeout, routerVars, loaderVars, frames,
                   serveVars>>

\* Latest time explored
MaxClock == 31

\* Time passes between two messages
Tick(d) ==
    /\ now + d <= MaxClock
    /\ now' = now + d
    /\ UNCHANGED <<sessions, ttl, inactivity_timeout, handled, routerVars,
                   loaderVars, frames, serveVars>>

\* twilio_whatsapp (src/app.py:306-364): one inbound webhook message from
\* from_number with the text incoming_msg.  handle_message is called with
\* the text (line 314); when the message carries audio that is downloaded
\* and transcribed to a non-empty transcript, handle_message is called
\* again with the transcript (line 347).  An exception of the first call
\* leaves the handler; one of the second is caught (line 350).
TwilioWhatsapp(from_number, incoming_msg, num_media, transcript) ==
    /\ from_number \in DOMAIN sessions
    /\ LET any1 == HandleMessageAt(sessions[from_number], incoming_msg, now, "matched")
       IN  \E route1 \in IF any1.out.route = "none" THEN {"matched"} ELSE RouteResults :
               LET first == IF route1 = "matched" THEN any1
                            ELSE HandleMessageAt(sessions[from_number], incoming_msg,
                                                 now, route1)
               IN  IF first.out.reply # "exception" /\ num_media > 0 /\ transcript # <<>>
                   THEN LET any2 == HandleMessageAt(first.out.session, transcript, now,
                                                    "matched")
                        IN  \E route2 \in IF any2.out.route = "none" THEN {"matched"}
                                          ELSE RouteResults :
                                LET second == IF route2 = "matched" THEN any2
                                              ELSE HandleMessageAt(first.out.session,
                                                                   transcript, now, route2)
                                IN  /\ sessions' = Store(from_number, second.out.session)
                                    /\ handled' =
                                           [Handled(from_number, transcript, second.opened,
                                                    second.entered, second.out)
                                               EXCEPT !.calls = 2]
                   ELSE /\ sessions' = Store(from_number, first.out.session)
                        /\ handled' = Handled(from_number, incoming_msg, first.opened,
                                              first.entered, first.out)
    /\ UNCHANGED <<now, ttl, inactivity_timeout, routerVars, loaderVars, frames,
                   serveVars>>

-----------------------------------------------------------------------------
(* Construction and the inputs of a call *)

UseGeminiIgnoresKey(f, key) == f

\* Lines 63 and 73-76: self.use_gemini after __init__
UseGemini(f, key) == f /\ key

Chars == {" ", "a", "U_uml", "k", "7"}

SeqsUpTo(S, n) == UNION {[1..m -> S] : m \in 0..n}

Texts == SeqsUpTo(Chars, MaxLen)

\* A text that passes the length and pseudo-word gates
SampleText == <<"l", "a", "m", "b", "a">>

TopKs == {0, 2, DefaultTopK}

Configs == [flag : BOOLEAN, api_key : BOOLEAN, top_k : TopKs]

\* Similarities of a query to the three topics of Catalog
SimProfiles ==
    { <<0, 0, 0>>, <<17, 10, 0>>, <<10, 18, 0>>, <<19, 40, 40>>,
      <<60, 0, 59>>, <<70, 70, 10>>, <<40, 10, 95>>, <<96, 100, 0>> }

SampleSims == <<70, 70, 10>>

CatalogIds == {Catalog[i].id : i \in 1..Len(Catalog)}

\* What the model may write in the topic and unit fields of its answer
ModelTexts == { <<"Yol Cukuru", "Fen Isleri">>, <<"Uydurma Konu", "Uydurma Birim">> }

AnswersWith(confs) ==
    { RouteResult(m, id, tu[1], tu[2], c, q) :
        m \in BOOLEAN, id \in CatalogIds \cup {NoneId, 99}, tu \in ModelTexts,
        c \in confs, q \in {NoneStr, "Hangi sokak?"} }

\* Answers that are RouteResult objects
Answers == AnswersWith({54, 55, 90})

\* JSON payloads, some of them outside the schema
Payloads == AnswersWith({54, 55, 90, 150})

Response(kind, text, answer) == [kind |-> kind, text |-> text, answer |-> answer]

SampleAnswer == RouteResult(TRUE, 7, "Cop Toplama", "Uydurma Birim", 90, NoneStr)

SampleResponse == Response("parsed", <<>>, SampleAnswer)

\* error: generate_content raises.  parsed: response.parsed is set.
\* text: response.parsed is None and response.text is a string.
\* none_text: both are None.
Responses ==
    {Response("error", <<>>, SampleAnswer), Response("none_text", <<>>, SampleAnswer)}
    \cup {Response("parsed", <<>>, a) : a \in Answers}
    \cup {Response("text", <<"{", "J", "}">>, a) : a \in Payloads}
    \cup {Response("text", t, SampleAnswer) :
            t \in {<<"x", "{", "J", "}">>, <<"{", "x", "}">>, <<"x">>}}

ResponseTexts == SeqsUpTo(RespTokens, MaxRespLen)

InvalidPayload == RouteResult(TRUE, 7, NoneStr, NoneStr, 150, NoneStr)

-----------------------------------------------------------------------------
(* The catalog loader (src/konu_birim.py) *)

\* A cell of the sheet: empty (NaN), a string, an int, a float in tenths
\* (15 is 1.5) or a bool
Cell(t, s, n) == [t |-> t, s |-> s, n |-> n]

NullCell == Cell("null", <<>>, 0)

StrCell(s) == Cell("str", s, 0)

IntCell(n) == Cell("int", <<>>, n)

FloatCell(tenths) == Cell("float", <<>>, tenths)

BoolCell(b) == Cell("bool", <<>>, IF b THEN 1 ELSE 0)

UpperToLower ==
    [c \in {"A", "C", "E", "G", "H", "T", "X", "Y"} |->
        CASE c = "A" -> "a" [] c = "C" -> "c" [] c = "E" -> "e" [] c = "G" -> "g"
          [] c = "H" -> "h" [] c = "T" -> "t" [] c = "X" -> "x" [] c = "Y" -> "y"]

LowerChar(c) == IF c \in DOMAIN UpperToLower THEN UpperToLower[c] ELSE c

\* str.lower
Lower(s) == [i \in 1..Len(s) |-> LowerChar(s[i])]

RECURSIVE Squeeze(_)
Squeeze(s) ==
    IF Len(s) <= 1 THEN s
    ELSE IF s[1] \in Whitespace /\ s[2] \in Whitespace THEN Squeeze(Tail(s))
    ELSE <<s[1]>> \o Squeeze(Tail(s))

\* _clean_text of a string: " ".join(text.strip().split()); NFKC leaves
\* the characters used here as they are
CleanText(s) == Squeeze(Strip(s))

Digits == <<"0", "1", "2", "3", "4", "5", "6", "7", "8", "9">>

IsDigit(c) == \E d \in 1..Len(Digits) : Digits[d] = c

DigitVal(c) == (CHOOSE d \in 1..Len(Digits) : Digits[d] = c) - 1

RECURSIVE DigitsVal(_)
DigitsVal(s) ==
    IF s = <<>> THEN 0
    ELSE DigitsVal(SubSeq(s, 1, Len(s) - 1)) * 10 + DigitVal(s[Len(s)])

RECURSIVE NatToStr(_)
NatToStr(n) ==
    IF n < 10 THEN <<Digits[n + 1]>>
    ELSE NatToStr(n \div 10) \o <<Digits[(n % 10) + 1]>>

ParsedNone == [ok |-> FALSE, v |-> 0]

Parsed(v) == [ok |-> TRUE, v |-> v]

\* int(float(text)) for a decimal literal: an optional sign, digits with at
\* most one point and at least one digit; anything else raises.  int()
\* drops the fraction.
IntOfFloatText(text) ==
    LET signed == text # <<>> /\ Head(text) \in {"-", "+"}
        body   == IF signed THEN Tail(text) ELSE text
        dot    == Find(body, ".")
        whole  == IF dot = -1 THEN body ELSE SubSeq(body, 1, dot)
        frac   == IF dot = -1 THEN <<>> ELSE SubSeq(body, dot + 2, Len(body))
    IN  IF /\ \A i \in 1..Len(whole) : IsDigit(whole[i])
           /\ \A i \in 1..Len(frac) : IsDigit(frac[i])
           /\ Len(whole) + Len(frac) >= 1
        THEN Parsed((IF signed /\ Head(text) = "-" THEN -1 ELSE 1) * DigitsVal(whole))
        ELSE ParsedNone

\* int(value) of a float: truncation toward zero
TruncTenths(t) == IF t >= 0 THEN t \div 10 ELSE -((-t) \div 10)

\* _parse_int
ParseInt(cell) ==
    CASE cell.t = "null"  -> ParsedNone
      [] cell.t = "bool"  -> ParsedNone
      [] cell.t = "int"   -> Parsed(cell.n)
      [] cell.t = "float" -> Parsed(TruncTenths(cell.n))
      [] cell.t = "str"   ->
            LET text == [i \in 1..Len(Strip(cell.s)) |->
                            IF Strip(cell.s)[i] = "," THEN "." ELSE Strip(cell.s)[i]]
            IN  IF text = <<>> THEN ParsedNone ELSE IntOfFloatText(text)

\* Series.astype(str) of a cell
AsStr(cell) ==
    CASE cell.t = "null"  -> <<"n", "a", "n">>
      [] cell.t = "bool"  -> IF cell.n = 1 THEN <<"T", "r", "u", "e">>
                             ELSE <<"F", "a", "l", "s", "e">>
      [] cell.t = "int"   -> NatToStr(cell.n)
      [] cell.t = "float" -> NatToStr(cell.n \div 10) \o <<".">> \o NatToStr(cell.n % 10)
      [] cell.t = "str"   -> cell.s

Affirmative ==
    { <<"e", "v", "e", "t">>, <<"t", "r", "u", "e">>, <<"1">>,
      <<"y", "e", "s">>, <<"a", "k", "t", "i", "f">> }

IsActiveNonEmpty(row) == Strip(AsStr(row.Aktif)) # <<>>

\* Lines 72-74: the row passes the Aktif filter
IsActive(row) == Lower(Strip(AsStr(row.Aktif))) \in Affirmative

\* Line 63: str(c).strip() of a column header
ColumnName(c) == IF c = " ID " THEN "ID" ELSE c

Required == {"ID", "Konu", "Birim"}

\* Lines 72-76: the row is still in df when the loop starts
InFrame(row, hasAktif) ==
    /\ hasAktif => IsActive(row)
    /\ row.ID.t # "null"
    /\ row.Konu.t # "null"
    /\ row.Birim.t # "null"

\* TopicRow; match_text feeds only the vectorizer and is left out
TopicRow(id, konu, birim) == [id |-> id, konu |-> konu, birim |-> birim]

PairKeyCaseSensitive(konu, birim) == <<konu, birim>>

\* Line 112
PairKey(konu, birim) == <<Lower(konu), Lower(birim)>>

SeenIdNever(rid, seen_ids) == FALSE

\* Line 108
SeenId(rid, seen_ids) == rid \in seen_ids

LogEntry(kind, id, row, n) == [kind |-> kind, id |-> id, row |-> row, n |-> n]

EmptyAcc ==
    [topics |-> <<>>, kept |-> <<>>, seen_ids |-> {}, seen_pairs |-> {},
     skipped |-> 0, log |-> <<>>]

SkipUncounted(acc) == acc

\* Lines 99-100 and 105-106: skipped += 1; continue
Skip(acc) == [acc EXCEPT !.skipped = @ + 1]

\* Lines 97-130: the body of the loop for the row at index i.  kept
\* remembers the index of each retained row.
LoadRow(row, i, acc) ==
    LET rid   == ParseInt(row.ID)
        konu  == CleanText(AsStr(row.Konu))
        birim == CleanText(AsStr(row.Birim))
    IN  IF ~rid.ok THEN Skip(acc)
        ELSE IF Len(konu) < 2 \/ Len(birim) < 2 THEN Skip(acc)
        ELSE IF SeenId(rid.v, acc.seen_ids)
        THEN [acc EXCEPT !.log = Append(@, LogEntry("dup_id", rid.v, i, 0))]
        ELSE IF PairKey(konu, birim) \in acc.seen_pairs THEN acc
        ELSE [acc EXCEPT !.topics = Append(@, TopicRow(rid.v, konu, birim)),
                         !.kept = Append(@, i),
                         !.seen_ids = @ \cup {rid.v},
                         !.seen_pairs = @ \cup {PairKey(konu, birim)}]

\* Lines 96-130: for _, r in df.iterrows()
RECURSIVE LoadRows(_, _, _, _)
LoadRows(rows, i, hasAktif, acc) ==
    IF i > Len(rows) THEN acc
    ELSE LoadRows(rows, i + 1, hasAktif,
                  IF InFrame(rows[i], hasAktif) THEN LoadRow(rows[i], i, acc) ELSE acc)

LoadResult(kind, missing, acc, log) ==
    [kind |-> kind, missing |-> missing, topics |-> acc.topics, kept |-> acc.kept,
     skipped |-> acc.skipped, log |-> log]

FinishLoadAllowsEmpty(acc) ==
    LoadResult("ok", {}, acc,
               IF acc.skipped > 0
               THEN Append(acc.log, LogEntry("skipped", 0, 0, acc.skipped))
               ELSE acc.log)

\* Lines 132-138
FinishLoad(acc) ==
    IF acc.topics = <<>>
    THEN LoadResult("no_topics_error", {}, EmptyAcc, acc.log)
    ELSE LoadResult("ok", {}, acc,
                    IF acc.skipped > 0
                    THEN Append(acc.log, LogEntry("skipped", 0, 0, acc.skipped))
                    ELSE acc.log)

MissingFirstOnly(columns) ==
    IF Required \ columns = {} THEN {}
    ELSE {CHOOSE c \in Required \ columns : TRUE}

\* Line 66
MissingColumns(columns) == Required \ columns

\* load_topics
LoadTopics(src) ==
    LET columns == {ColumnName(c) : c \in src.columns}
        missing == MissingColumns(columns)
    IN  IF missing # {}
        THEN LoadResult("schema_error", missing, EmptyAcc, <<>>)
        ELSE FinishLoad(LoadRows(src.rows, 1, "Aktif" \in columns, EmptyAcc))

NotLoaded == LoadResult("none", {}, EmptyAcc, <<>>)

NoSource == [columns |-> {}, rows |-> <<>>]

\* No load in progress
LoaderIdle ==
    /\ source = NoSource
    /\ load_pc = "idle"
    /\ loaded = NotLoaded

Load ==
    /\ load_pc = "call"
    /\ load_pc' = "done"
    /\ loaded' = LoadTopics(source)
    /\ UNCHANGED <<source, routerVars, frames, serveVars, botVars>>

\* The router as constructed with cfg, about to run route(text)
InitWith(cfg, text, s, resp) ==
    /\ topics = Catalog
    /\ flag = cfg.flag
    /\ api_key = cfg.api_key
    /\ use_gemini = UseGemini(cfg.flag, cfg.api_key)
    /\ top_k = cfg.top_k
    /\ min_score = DefaultMinScore
    /\ min_confidence = DefaultMinConfidence
    /\ user_text = text
    /\ sims = s
    /\ response = resp
    /\ pc = "call"
    /\ outcome = NotCalled
    /\ gate = "none"
    /\ ranked = FALSE
    /\ shortlist = <<>>
    /\ llm_calls = 0
    /\ LoaderIdle
    /\ NoCalls
    /\ ServeIdle
    /\ BotIdle

\* The calls explored: every text under every configuration; every response
\* text; every combination of configuration, similarities and answer.
Init ==
    \/ \E cfg \in Configs, t \in Texts :
           InitWith(cfg, t, SampleSims, SampleResponse)
    \/ \E t \in ResponseTexts, a \in {SampleAnswer, InvalidPayload} :
           InitWith([flag |-> TRUE, api_key |-> TRUE, top_k |-> DefaultTopK],
                    SampleText, SampleSims, Response("text", t, a))
    \/ \E cfg \in Configs, s \in SimProfiles :
           InitWith(cfg, SampleText, s, SampleResponse)
    \/ \E k \in TopKs, s \in SimProfiles, r \in Responses :
           InitWith([flag |-> TRUE, api_key |-> TRUE, top_k |-> k],
                    SampleText, s, r)

Next == Route

Spec == Init /\ [][Next]_vars

\* The router as constructed with cfg, and no single call in progress
RouterWith(cfg) ==
    /\ topics = Catalog
    /\ flag = cfg.flag
    /\ api_key = cfg.api_key
    /\ use_gemini = UseGemini(cfg.flag, cfg.api_key)
    /\ top_k = cfg.top_k
    /\ min_score = DefaultMinScore
    /\ min_confidence = DefaultMinConfidence
    /\ user_text = <<>>
    /\ sims = SampleSims
    /\ response = SampleResponse
    /\ pc = "idle"
    /\ outcome = NotCalled
    /\ gate = "none"
    /\ ranked = FALSE
    /\ shortlist = <<>>
    /\ llm_calls = 0

RouterIdle == RouterWith([flag |-> TRUE, api_key |-> TRUE, top_k |-> DefaultTopK])

\* Longest sheet explored
MaxRows == 3

Row(id, konu, birim, aktif) == [ID |-> id, Konu |-> konu, Birim |-> birim, Aktif |-> aktif]

Evet == StrCell(<<"E", "v", "e", "t">>)

Hayir == StrCell(<<"H", "a", "y", "i", "r">>)

Xy == StrCell(<<"X", "y">>)

\* Rows of the sheets explored: repeated ids, repeated pairs in another
\* case or spacing, short text, unparseable and empty ids, inactive rows
SampleRows ==
    { Row(IntCell(1), StrCell(<<"A", "b">>), Xy, Evet),
      Row(IntCell(1), StrCell(<<"C", "d">>), Xy, Evet),
      Row(IntCell(2), StrCell(<<"a", "b">>), StrCell(<<"x", "y">>), Evet),
      Row(IntCell(2), StrCell(<<"C", "d">>), Xy, Evet),
      Row(IntCell(1), StrCell(<<"a">>), Xy, Evet),
      Row(StrCell(<<"x">>), StrCell(<<"E", "g">>), Xy, Evet),
      Row(IntCell(3), StrCell(<<"E", "g">>), Xy, Hayir),
      Row(NullCell, StrCell(<<"A", "b">>), Xy, Evet),
      Row(StrCell(<<" ", "2", ",", "5">>), StrCell(<<" ", "A", "b", " ">>), Xy, Evet),
      Row(FloatCell(15), StrCell(<<"G", "h">>), Xy, BoolCell(TRUE)),
      Row(IntCell(3), StrCell(<<"E", "g">>), NullCell, Evet),
      Row(IntCell(3), StrCell(<<"G", "h">>), Xy, FloatCell(10)) }

\* Headers of the sheets explored: all columns, no Aktif column and a
\* padded ID header, no Konu column, neither ID nor Konu
ColumnSets ==
    { {"ID", "Konu", "Birim", "Aktif"},
      {" ID ", "Konu", "Birim"},
      {"ID", "Birim", "Aktif"},
      {"Birim", "Aktif"} }

\* load_topics about to run on a sheet
InitLoad ==
    /\ RouterIdle
    /\ \E n \in 0..MaxRows, columns \in ColumnSets :
           \E rows \in [1..n -> SampleRows] :
               source = [columns |-> columns, rows |-> rows]
    /\ load_pc = "call"
    /\ loaded = NotLoaded
    /\ NoCalls
    /\ ServeIdle
    /\ BotIdle

NextLoad == Load

SpecLoad == InitLoad /\ [][NextLoad]_vars

\* Arguments and responses of the concurrent calls: a text stopped at the
\* length gate and one that is ranked; similarities with a tie, without
\* one and below min_score; a failing, a trusted and an unparseable answer
ConcCalls ==
    { Call(text, s, resp, "start", <<>>, NotCalled, FALSE) :
        text \in {<<"a">>, SampleText},
        s \in {<<70, 70, 10>>, <<40, 10, 95>>, <<17, 10, 0>>},
        resp \in {Response("error", <<>>, SampleAnswer), SampleResponse,
                  Response("text", <<"x">>, SampleAnswer)} }

\* One router, every call about to start
InitConc ==
    /\ \E f \in BOOLEAN :
           RouterWith([flag |-> f, api_key |-> TRUE, top_k |-> DefaultTopK])
    /\ LoaderIdle
    /\ frames \in [Threads -> ConcCalls]
    /\ ServeIdle
    /\ BotIdle

NextConc == \E t \in Threads : Enter(t) \/ LlmReturn(t)

SpecConc == InitConc /\ [][NextConc]_vars

\* The service started (app.py:69-71), no request yet
InitServe ==
    /\ RouterIdle
    /\ LoaderIdle
    /\ NoCalls
    /\ ServeIdle
    /\ BotIdle

NextServe == \E u \in Users : Receive(u) \/ Handle(u) \/ Resume(u)

SpecServe == InitServe /\ [][NextServe]_vars

\* The messages explored: empty, a greeting, menu choices, issues, texts
\* out of scope, a name, a TC number, an address, answers to the follow-up
BotTexts ==
    { <<>>, <<"Merhaba">>, <<"1">>, <<"yardim">>, <<"Cop!">>, <<"robot">>,
      <<"robot", "musun">>, <<"ali", "veli">>, <<"tc", "12345678901">>,
      <<"mahalle", "sokak">>, <<"hayir">>, <<"yol", "bozuk">> }

\* The bot as constructed (bot.py:66-70), by default or with the limits
\* the other way round; no session yet
InitBot ==
    /\ RouterIdle
    /\ LoaderIdle
    /\ NoCalls
    /\ ServeIdle
    /\ sessions = [u \in {"u1"} |-> Absent]
    /\ now = 0
    /\ \E limits \in {<<DefaultTtl, DefaultInactivity>>, <<DefaultInactivity, DefaultTtl>>} :
           ttl = limits[1] /\ inactivity_timeout = limits[2]
    /\ handled = NoneHandled

\* A message of a user, or time passing between two messages: as much as
\* the shorter limit, or one second more
NextBot ==
    \/ \E user_id \in DOMAIN sessions, text \in BotTexts : HandleMessage(user_id, text)
    \/ \E d \in {Min(ttl, inactivity_timeout), Min(ttl, inactivity_timeout) + 1} : Tick(d)

SpecBot == InitBot /\ [][NextBot]_vars

\* The bot of app.py:71, with the default limits, and two senders
InitHook ==
    /\ RouterIdle
    /\ LoaderIdle
    /\ NoCalls
    /\ ServeIdle
    /\ sessions = [u \in {"u1", "u2"} |-> Absent]
    /\ now = 0
    /\ ttl = DefaultTtl
    /\ inactivity_timeout = DefaultInactivity
    /\ handled = NoneHandled

\* A text message (no text, an issue or a name), a voice message with its
\* transcript (empty when there is none), or time passing
NextHook ==
    \/ \E from_number \in DOMAIN sessions,
          incoming_msg \in {<<>>, <<"yol", "bozuk">>, <<"ali", "veli">>} :
           \E num_media \in {0, 1} :
               \E transcript \in IF num_media = 0 THEN {<<>>}
                                 ELSE {<<>>, <<"yol", "bozuk">>} :
                   TwilioWhatsapp(from_number, incoming_msg, num_media, transcript)
    \/ \E d \in {ttl, ttl + 1} : Tick(d)

SpecHook == InitHook /\ [][NextHook]_vars

TypeOK ==
    /\ pc \in {"idle", "call", "done"}
    /\ outcome.kind \in {"none", "returned", "raised"}
    /\ llm_calls \in 0..1

-----------------------------------------------------------------------------
(* Vocabulary of the properties, stated from the inputs of the call *)

Done == pc = "done"

NonSpace(text) == {i \in 1..Len(text) : text[i] # " "}

\* Number of characters left after removing surrounding whitespace
StrippedLen(text) ==
    IF NonSpace(text) = {} THEN 0
    ELSE LET first == CHOOSE i \in NonSpace(text) : \A j \in NonSpace(text) : i <= j
             last  == CHOOSE i \in NonSpace(text) : \A j \in NonSpace(text) : j <= i
         IN  last - first + 1

TooShort == StrippedLen(user_text) < 4

TurkishVowels ==
    {"a", "e", "i_dotless", "i", "o", "o_uml", "u", "u_uml"}
    \cup {"A", "E", "I", "I_dotted", "O", "O_uml", "U", "U_uml"}

AlphaCount(text) == Cardinality({i \in 1..Len(text) : IsAlpha(text[i])})

PseudoWord ==
    /\ AlphaCount(user_text) >= 4
    /\ \A i \in 1..Len(user_text) : user_text[i] \notin TurkishVowels

EmptyShortlist == top_k = 0 \/ Len(topics) = 0

BestScore == CHOOSE m \in {sims[i] : i \in 1..Len(sims)} : \A i \in 1..Len(sims) : sims[i] <= m

BelowMinScore == BestScore < min_score

\* The query passes the length, pseudo-word, empty-shortlist and min-score gates
PassesMinScore == ~TooShort /\ ~PseudoWord /\ ~EmptyShortlist /\ ~BelowMinScore

LlmDisabled == ~(flag /\ api_key)

\* The call reaches LLM refinement
Refines == PassesMinScore /\ ~LlmDisabled

\* shortlist[1] is a topic of the catalog with the highest similarity
TopIsBest ==
    /\ shortlist # <<>>
    /\ shortlist[1].score = BestScore
    /\ \E i \in 1..Len(topics) :
           /\ sims[i] = BestScore
           /\ shortlist[1] = Candidate(topics[i], sims[i])

\* route returned matched=true with the top lexical candidate
ReturnedTop ==
    /\ outcome.kind = "returned"
    /\ outcome.result.matched
    /\ TopIsBest
    /\ outcome.result.topic_id = shortlist[1].id
    /\ outcome.result.topic = shortlist[1].konu
    /\ outcome.result.unit = shortlist[1].birim

\* route returned matched=false with the given confidence and no topic fields
ReturnedNoMatch(conf) ==
    /\ outcome.kind = "returned"
    /\ ~outcome.result.matched
    /\ outcome.result.confidence = conf
    /\ outcome.result.topic_id = NoneId
    /\ outcome.result.topic = NoneStr
    /\ outcome.result.unit = NoneStr

LexicalFallback ==
    /\ ReturnedTop
    /\ outcome.result.confidence >= 20
    /\ outcome.result.confidence <= 60

\* The model's answer reached route as a RouteResult
HasAnswer == response.kind # "error" /\ Parse(response).status = "ok"

Answer == Parse(response).value

AnswerInCatalog == \E i \in 1..Len(topics) : topics[i].id = Answer.topic_id

\* route returned the model's own choice
ReturnedAnswer ==
    /\ outcome.kind = "returned"
    /\ outcome.result.matched
    /\ outcome.result.topic_id = Answer.topic_id
    /\ outcome.result.confidence = Answer.confidence

-----------------------------------------------------------------------------
(* Properties *)

\* C1: when the LLM call itself fails for a query that reached refinement,
\* route raises nothing and returns the top lexical candidate with a
\* confidence within [0.2, 0.6].
C1_LlmFailureFallsBack ==
    (Done /\ Refines /\ response.kind = "error") => LexicalFallback

\* C2: when the response has no pre-parsed object and every parse attempt
\* fails, with or without a {...} substring, route returns the lexical
\* fallback instead of raising.
C2_UnparseableFallsBack ==
    (Done /\ Refines /\ response.kind \in {"text", "none_text"}
          /\ Parse(response).status # "ok")
        => LexicalFallback

\* C3 (as stated): the answer is trusted exactly when its topic id is in the
\* catalog and its confidence is at least minConfidence.
C3_TrustedIffIdAndConfidence ==
    (Done /\ Refines /\ HasAnswer)
        => (ReturnedAnswer <=>
              (AnswerInCatalog /\ Answer.confidence >= min_confidence))

\* C3 (amended): the answer is trusted exactly when the model reported
\* matched=true, its topic id is in the catalog and its confidence is at
\* least minConfidence; a trusted answer is returned as matched=true with the
\* model's topic id and confidence unchanged.
C3_TrustedIffMatchedIdAndConfidence ==
    (Done /\ Refines /\ HasAnswer)
        => (ReturnedAnswer <=>
              (/\ Answer.matched
               /\ AnswerInCatalog
               /\ Answer.confidence >= min_confidence))

C3_Witness ==
    /\ Done /\ Refines /\ HasAnswer
    /\ Answer.matched /\ AnswerInCatalog
    /\ Answer.confidence = min_confidence
    /\ ReturnedAnswer

\* C4: a trusted answer for topic id T is returned with the catalog's topic
\* name and department for T, whatever the model wrote in those fields.
C4_CatalogAuthoritative ==
    (Done /\ Refines /\ HasAnswer /\ Answer.matched /\ AnswerInCatalog
          /\ Answer.confidence >= min_confidence)
        => /\ outcome.kind = "returned"
           /\ outcome.result.topic_id = Answer.topic_id
           /\ \A i \in 1..Len(topics) :
                  topics[i].id = Answer.topic_id
                      => /\ outcome.result.topic = topics[i].konu
                         /\ outcome.result.unit = topics[i].birim

C4_Witness ==
    /\ Done /\ Refines /\ HasAnswer /\ ReturnedAnswer
    /\ \E i \in 1..Len(topics) :
           /\ topics[i].id = Answer.topic_id
           /\ Answer.unit # topics[i].birim
           /\ Answer.topic # topics[i].konu
           /\ outcome.result.unit = topics[i].birim

\* C5: when the parsed answer names an id outside the catalog or a
\* confidence below minConfidence, route returns matched=true with the top
\* lexical candidate and a confidence within [0.2, 0.6].
C5_UntrustedSubstituted ==
    (Done /\ Refines /\ HasAnswer
          /\ (~AnswerInCatalog \/ Answer.confidence < min_confidence))
        => LexicalFallback

C5_Witness ==
    /\ Done /\ Refines /\ HasAnswer
    /\ ~Answer.matched /\ ~AnswerInCatalog
    /\ BestScore > 60
    /\ outcome.result.matched
    /\ outcome.result.confidence = 60

\* C6: the gates are tried in the order length, pseudo-word, empty shortlist,
\* min-score, no-LLM, LLM refinement; the first that fires decides the
\* outcome; the LLM is called once when none of the first five fired and
\* never otherwise.
C6_GateOrder ==
    Done =>
        /\ gate = (IF TooShort THEN "length"
                   ELSE IF PseudoWord THEN "pseudo_word"
                   ELSE IF EmptyShortlist THEN "empty"
                   ELSE IF BelowMinScore THEN "min_score"
                   ELSE IF LlmDisabled THEN "no_llm"
                   ELSE "llm")
        /\ gate \in {"length", "pseudo_word", "empty"} => ReturnedNoMatch(0)
        /\ gate \in {"length", "pseudo_word"} <=> ~ranked
        /\ gate = "min_score" => ReturnedNoMatch(BestScore)
        /\ gate = "no_llm" => ReturnedTop
        /\ llm_calls = (IF gate = "llm" THEN 1 ELSE 0)

C6_Witness ==
    /\ Done
    /\ ~TooShort /\ ~PseudoWord /\ ~EmptyShortlist
    /\ BelowMinScore /\ LlmDisabled
    /\ gate = "min_score"
    /\ llm_calls = 0

\* C7: a text with fewer than 4 characters after stripping yields
\* matched=false with confidence 0.0, with no ranking and no LLM call, under
\* every configuration.
C7_LengthGate ==
    (Done /\ TooShort)
        => /\ ReturnedNoMatch(0)
           /\ ~ranked
           /\ shortlist = <<>>
           /\ llm_calls = 0

C7_Witness ==
    /\ Done /\ TooShort
    /\ Len(user_text) >= 4
    /\ ~LlmDisabled
    /\ ReturnedNoMatch(0)

\* C8: for a text that passes the length gate, the pseudo-word gate fires
\* exactly when the text has at least 4 alphabetic characters and no Turkish
\* vowel in either case; otherwise the call goes on to the lexical shortlist.
C8_PseudoWordGate ==
    (Done /\ ~TooShort)
        => /\ (gate = "pseudo_word") <=> PseudoWord
           /\ PseudoWord => (ReturnedNoMatch(0) /\ ~ranked /\ llm_calls = 0)
           /\ ~PseudoWord => ranked

C8_Witness ==
    /\ Done /\ ~TooShort
    /\ AlphaCount(user_text) >= 4
    /\ \E i \in 1..Len(user_text) : user_text[i] = "U_uml"
    /\ \A i \in 1..Len(user_text) : user_text[i] # "a"
    /\ ranked

\* C9: a best score strictly below minScore yields matched=false with that
\* score as confidence and no topic fields; a best score at or above minScore
\* yields a matched=true result.
C9_MinScoreGate ==
    (Done /\ ~TooShort /\ ~PseudoWord /\ ~EmptyShortlist)
        => IF BelowMinScore
           THEN ReturnedNoMatch(BestScore)
           ELSE outcome.kind = "returned" /\ outcome.result.matched

\* C10: with LLM refinement disabled, by the flag or by a missing API key,
\* a query that passes the min-score gate yields matched=true with the best
\* lexical candidate and the raw score clamped into [0.2, 0.95], and no LLM
\* call is made.
C10_NoLlmMode ==
    (Done /\ PassesMinScore /\ LlmDisabled)
        => /\ ReturnedTop
           /\ outcome.result.confidence = Min(95, Max(20, BestScore))
           /\ llm_calls = 0

C10_Witness ==
    /\ Done /\ PassesMinScore
    /\ flag /\ ~api_key
    /\ BestScore > 95
    /\ outcome.result.matched
    /\ outcome.result.confidence = 95


\* C11: every RouteResult route returns with matched=false has topic id,
\* topic name, department and clarification question unset.
C11_NoMatchHasNoFields ==
    (Done /\ outcome.kind = "returned" /\ ~outcome.result.matched)
        => /\ outcome.result.topic_id = NoneId
           /\ outcome.result.topic = NoneStr
           /\ outcome.result.unit = NoneStr
           /\ outcome.result.clarification_question = NoneStr

C11_Witness ==
    /\ Done
    /\ gate = "min_score"
    /\ outcome.kind = "returned"
    /\ ~outcome.result.matched
    /\ outcome.result.confidence > 0
    /\ outcome.result.topic_id = NoneId

\* C12: a route call that reached the lexical shortlist returns a
\* RouteDecision whose candidate list is that shortlist, in rank order.
C12_DecisionCarriesShortlist ==
    (Done /\ ranked /\ outcome.kind = "returned") => outcome.options = shortlist

CatalogIndex(id) == CHOOSE i \in 1..Len(topics) : topics[i].id = id

\* C13: candidates with the same score are ranked in catalog order, the
\* lower catalog index first.
C13_TiesInCatalogOrder ==
    (Done /\ ranked)
        => \A a, b \in 1..Len(shortlist) :
               (a < b /\ shortlist[a].score = shortlist[b].score)
                   => CatalogIndex(shortlist[a].id) < CatalogIndex(shortlist[b].id)

\* C14: for N topics the ranker returns exactly min(topK, N) candidates in
\* non-increasing score order, and no topic left out scores strictly higher
\* than a returned one.
C14_TopKRanked ==
    (Done /\ ranked)
        => /\ Len(shortlist) = Min(top_k, Len(topics))
           /\ \A a, b \in 1..Len(shortlist) :
                  a < b => /\ shortlist[a].score >= shortlist[b].score
                           /\ shortlist[a].id # shortlist[b].id
           /\ \A a \in 1..Len(shortlist) :
                  \E i \in 1..Len(topics) :
                      shortlist[a] = Candidate(topics[i], sims[i])
           /\ \A i \in 1..Len(topics) :
                  (\A a \in 1..Len(shortlist) : shortlist[a].id # topics[i].id)
                      => \A a \in 1..Len(shortlist) : sims[i] <= shortlist[a].score

C14_Witness ==
    /\ Done /\ ranked
    /\ top_k > Len(topics)
    /\ Len(shortlist) = Len(topics)
    /\ \A a \in 1..(Len(shortlist) - 1) : shortlist[a].score > shortlist[a + 1].score
    /\ shortlist[1].id # topics[1].id


-----------------------------------------------------------------------------
(* Vocabulary of the loader's properties, stated from the sheet *)

Loaded == load_pc = "done" /\ loaded.kind = "ok"

HasColumn(name) == \E c \in source.columns : ColumnName(c) = name

SourceRows == 1..Len(source.rows)

\* The row passes the active filter and has no empty required cell
Survives(j) ==
    /\ HasColumn("Aktif") => IsActive(source.rows[j])
    /\ source.rows[j].ID.t # "null"
    /\ source.rows[j].Konu.t # "null"
    /\ source.rows[j].Birim.t # "null"

RowKonu(j) == CleanText(AsStr(source.rows[j].Konu))

RowBirim(j) == CleanText(AsStr(source.rows[j].Birim))

\* The row passes row validation
ValidRow(j) ==
    /\ ParseInt(source.rows[j].ID).ok
    /\ Len(RowKonu(j)) >= 2
    /\ Len(RowBirim(j)) >= 2

RowId(j) == ParseInt(source.rows[j].ID).v

\* The row carries the identifier d
Carries(j, d) == ParseInt(source.rows[j].ID).ok /\ RowId(j) = d

RowPair(j) == <<Lower(RowKonu(j)), Lower(RowBirim(j))>>

\* The row carries the (topic, department) pair p, compared without case
CarriesPair(j, p) ==
    /\ source.rows[j].Konu.t # "null"
    /\ source.rows[j].Birim.t # "null"
    /\ RowPair(j) = p

Retained == 1..Len(loaded.topics)

RecordPair(k) == <<Lower(loaded.topics[k].konu), Lower(loaded.topics[k].birim)>>

\* The retained record k is the row at its source index
FromItsRow(k) ==
    /\ loaded.kept[k] \in SourceRows
    /\ Carries(loaded.kept[k], loaded.topics[k].id)
    /\ loaded.topics[k].konu = RowKonu(loaded.kept[k])
    /\ loaded.topics[k].birim = RowBirim(loaded.kept[k])

\* The row was dropped with a duplicate-id warning
Warned(j) == \E e \in 1..Len(loaded.log) :
    loaded.log[e].kind = "dup_id" /\ loaded.log[e].row = j

IsRetained(j) == \E k \in Retained : loaded.kept[k] = j

IdsDistinct == \A a, b \in Retained :
    loaded.topics[a].id = loaded.topics[b].id => a = b

PairsDistinct == \A a, b \in Retained : RecordPair(a) = RecordPair(b) => a = b

\* C18 as stated: identifiers are pairwise distinct, the retained record of
\* an identifier is the first source row carrying it, and every later row
\* carrying it is dropped with a warning.
C18_FirstIdWins ==
    Loaded =>
        /\ IdsDistinct
        /\ \A k \in Retained :
            /\ FromItsRow(k)
            /\ \A j \in SourceRows :
                Carries(j, loaded.topics[k].id) =>
                    /\ loaded.kept[k] <= j
                    /\ j > loaded.kept[k] => (~IsRetained(j) /\ Warned(j))

\* The row repeats the pair of a record retained from an earlier row
RepeatsRetainedPair(j) == \E k \in Retained :
    loaded.kept[k] < j /\ CarriesPair(j, RecordPair(k))

\* The row repeats the identifier of a record retained from an earlier row
RepeatsRetainedId(j) == \E k \in Retained :
    loaded.kept[k] < j /\ Carries(j, loaded.topics[k].id)

\* C18 (amended): identifiers are pairwise distinct; the retained record of
\* an identifier is the first row carrying it among the rows that pass the
\* active filter, null dropping and row validation and do not repeat the
\* pair of an earlier retained record; every later row carrying it that
\* passes the filter, null dropping and validation is dropped with a
\* warning, and no other row is warned about.
C18_FirstEligibleIdWins ==
    Loaded =>
        /\ IdsDistinct
        /\ \A k \in Retained :
            /\ FromItsRow(k)
            /\ \A j \in SourceRows :
                (Carries(j, loaded.topics[k].id) /\ Survives(j) /\ ValidRow(j))
                    => /\ j < loaded.kept[k] => RepeatsRetainedPair(j)
                       /\ j > loaded.kept[k] => (~IsRetained(j) /\ Warned(j))
        /\ \A j \in SourceRows :
            Warned(j) => (Survives(j) /\ ValidRow(j) /\ RepeatsRetainedId(j))

\* A later valid row with the id of a retained record was dropped with a
\* warning, and an earlier row with that id was passed over
C18_Witness ==
    /\ Loaded
    /\ \E k \in Retained : \E i, j \in SourceRows :
        /\ i < loaded.kept[k] /\ loaded.kept[k] < j
        /\ Carries(i, loaded.topics[k].id)
        /\ Carries(j, loaded.topics[k].id)
        /\ Warned(j)

\* C19 as stated: no two records share a pair compared without case, the
\* retained record of a pair is the first source row carrying it, and
\* later rows carrying it are dropped without a warning.
C19_FirstPairWins ==
    Loaded =>
        /\ PairsDistinct
        /\ \A k \in Retained :
            /\ FromItsRow(k)
            /\ \A j \in SourceRows :
                CarriesPair(j, RecordPair(k)) =>
                    /\ loaded.kept[k] <= j
                    /\ j > loaded.kept[k] => (~IsRetained(j) /\ ~Warned(j))

\* C19 (amended): no two records share a pair compared without case; the
\* retained record of a pair is the first row carrying it among the rows
\* that pass the active filter, null dropping and row validation and do
\* not repeat the identifier of an earlier retained record; every later
\* row carrying it is dropped, without a warning unless it passes the
\* filter, null dropping and validation and repeats a retained identifier.
C19_FirstEligiblePairWins ==
    Loaded =>
        /\ PairsDistinct
        /\ \A k \in Retained :
            /\ FromItsRow(k)
            /\ \A j \in SourceRows :
                CarriesPair(j, RecordPair(k)) =>
                    /\ (j < loaded.kept[k] /\ Survives(j) /\ ValidRow(j))
                           => RepeatsRetainedId(j)
                    /\ j > loaded.kept[k] =>
                        /\ ~IsRetained(j)
                        /\ Warned(j) <=>
                               (Survives(j) /\ ValidRow(j) /\ RepeatsRetainedId(j))

\* A later row repeating a retained pair in another case, with an
\* identifier of its own, was dropped without a warning
C19_Witness ==
    /\ Loaded
    /\ \E k \in Retained : \E j \in SourceRows :
        /\ loaded.kept[k] < j
        /\ CarriesPair(j, RecordPair(k))
        /\ <<RowKonu(j), RowBirim(j)>> # <<loaded.topics[k].konu, loaded.topics[k].birim>>
        /\ Survives(j) /\ ValidRow(j)
        /\ ~RepeatsRetainedId(j)
        /\ ~IsRetained(j) /\ ~Warned(j)

\* C20: a load that returns gives at least one record; when no row passes
\* the active filter, null dropping and row validation the load raises and
\* gives no catalog.
C20_EmptyCatalogRaises ==
    load_pc = "done" =>
        /\ loaded.kind = "ok" => Len(loaded.topics) >= 1
        /\ (\A c \in Required : HasColumn(c))
            => (loaded.kind = "no_topics_error"
                    <=> ~\E j \in SourceRows : Survives(j) /\ ValidRow(j))
        /\ loaded.kind # "ok" => loaded.topics = <<>>

\* A sheet with rows, none of which survives, was refused
C20_Witness ==
    /\ load_pc = "done"
    /\ loaded.kind = "no_topics_error"
    /\ Len(source.rows) >= 2
    /\ \A c \in Required : HasColumn(c)


\* Required columns that no header of the sheet names
AbsentColumns == {c \in Required : ~HasColumn(c)}

\* C21: the load fails on the schema exactly when a required column is
\* absent; the error names every absent column and no row was processed:
\* nothing is retained, skipped or warned about.
C21_MissingColumnsNamed ==
    load_pc = "done" =>
        /\ loaded.kind = "schema_error" <=> AbsentColumns # {}
        /\ loaded.kind = "schema_error" =>
            /\ loaded.missing = AbsentColumns
            /\ loaded.topics = <<>>
            /\ loaded.skipped = 0
            /\ loaded.log = <<>>

\* A sheet with rows and two required columns absent was refused
C21_Witness ==
    /\ load_pc = "done"
    /\ loaded.kind = "schema_error"
    /\ Cardinality(AbsentColumns) >= 2
    /\ Len(source.rows) >= 2

\* The row reaches row validation and fails it: its identifier does not
\* parse or its cleaned topic or department has fewer than 2 characters
Malformed(j) == Survives(j) /\ ~ValidRow(j)

RECURSIVE WellFormedRows(_)
\* The rows of the sheet up to row n, those failing validation left out
WellFormedRows(n) ==
    IF n = 0 THEN <<>>
    ELSE IF Malformed(n) THEN WellFormedRows(n - 1)
    ELSE Append(WellFormedRows(n - 1), source.rows[n])

\* The load of the same sheet without the rows failing validation
WithoutMalformed ==
    LoadTopics([source EXCEPT !.rows = WellFormedRows(Len(source.rows))])

SkippedWarnings ==
    {e \in 1..Len(loaded.log) : loaded.log[e].kind = "skipped"}

\* C22: no row failing validation is retained; the load ends as it does
\* on the sheet without those rows, with the same catalog; and a load that
\* returns logs one warning with the number of rows that failed validation
\* when there are any, and none otherwise.
C22_MalformedRowsSkipped ==
    load_pc = "done" =>
        /\ \A j \in SourceRows : Malformed(j) => ~IsRetained(j)
        /\ loaded.kind = WithoutMalformed.kind
        /\ loaded.topics = WithoutMalformed.topics
        /\ Loaded =>
            LET n == Cardinality({j \in SourceRows : Malformed(j)})
            IN  IF n = 0 THEN SkippedWarnings = {}
                ELSE /\ Cardinality(SkippedWarnings) = 1
                     /\ \A e \in SkippedWarnings : loaded.log[e].n = n

\* A sheet with a row of unparseable id and a row of short text, both
\* skipped and counted, and a row retained
C22_Witness ==
    /\ Loaded
    /\ \E i, j \in SourceRows :
        /\ Survives(i) /\ ~ParseInt(source.rows[i].ID).ok
        /\ Survives(j) /\ ParseInt(source.rows[j].ID).ok /\ Len(RowKonu(j)) < 2
    /\ \E e \in SkippedWarnings : loaded.log[e].n = 2

\* The flag of the row, stripped and lowercased, is an affirmative token
FlagAffirmative(j) ==
    Lower(Strip(AsStr(source.rows[j].Aktif))) \in
        { <<"e", "v", "e", "t">>, <<"y", "e", "s">>, <<"t", "r", "u", "e">>,
          <<"1">>, <<"a", "k", "t", "i", "f">> }

\* The row has no empty required cell
NonNull(j) ==
    /\ source.rows[j].ID.t # "null"
    /\ source.rows[j].Konu.t # "null"
    /\ source.rows[j].Birim.t # "null"

\* C23: with an Aktif column only rows with an affirmative flag are
\* retained; without one the flag removes no row: every row without an
\* empty cell that passes validation is retained unless it repeats the id
\* or the pair of an earlier retained record.
C23_ActiveFilter ==
    Loaded =>
        /\ HasColumn("Aktif") =>
            \A k \in Retained : FlagAffirmative(loaded.kept[k])
        /\ ~HasColumn("Aktif") =>
            \A j \in SourceRows :
                (NonNull(j) /\ ValidRow(j))
                    => \/ IsRetained(j)
                       \/ RepeatsRetainedId(j)
                       \/ RepeatsRetainedPair(j)

\* With an Aktif column, a row whose flag needed lowercasing was retained
\* and a valid row with the flag 1.0 was removed
C23_Witness ==
    /\ Loaded
    /\ HasColumn("Aktif")
    /\ \E k \in Retained :
        AsStr(source.rows[loaded.kept[k]].Aktif) = <<"E", "v", "e", "t">>
    /\ \E j \in SourceRows :
        /\ source.rows[j].Aktif = FloatCell(10)
        /\ NonNull(j) /\ ValidRow(j)
        /\ ~IsRetained(j) /\ ~RepeatsRetainedId(j) /\ ~RepeatsRetainedPair(j)

-----------------------------------------------------------------------------
(* Vocabulary of the concurrency properties *)

\* What route returns for these arguments and this response when it is the
\* only call running
Alone(text, s, resp) ==
    IF LengthGate(text) \/ PseudoWordGate(text) THEN {NoMatch(0)}
    ELSE {AfterShortlist(Shortlist(s, order), resp).outcome : order \in ArgSorts(s)}

\* C16: a step of a route call leaves the catalog and the configuration
\* as they were, and a call that has returned, whatever the other calls
\* did in between, returned a decision it returns when run alone on the
\* same text, similarities and LLM response.
C16_CallsIndependent ==
    /\ [](\A t \in Threads :
            frames[t].pc = "done"
                => frames[t].outcome
                     \in Alone(frames[t].user_text, frames[t].sims, frames[t].response))
    /\ [][config' = config]_vars

\* A call came back from its LLM call while another was inside its own,
\* after the other had computed a different shortlist
C16_Witness ==
    \E t \in Threads, u \in Threads :
        /\ t # u
        /\ frames[t].pc = "done"
        /\ frames[t].overlapped
        /\ frames[u].pc = "llm"
        /\ shortlist = frames[u].candidates
        /\ frames[u].candidates[1] # frames[t].candidates[1]
        /\ frames[t].outcome.kind = "returned"
        /\ frames[t].outcome.result.topic_id = frames[t].candidates[1].id


-----------------------------------------------------------------------------
(* Vocabulary of the service properties *)

BlockedInLlm(u) == requests[u].status = "in_llm"

Waiting(u) == requests[u].status = "queued"

\* C15: while the message of one user is blocked in the LLM call, the
\* service can go on with the received message of any other user.
C15_SlowLlmDoesNotStall ==
    \A u, v \in Users :
        (u # v /\ BlockedInLlm(u) /\ Waiting(v)) => ENABLED Handle(v)


-----------------------------------------------------------------------------
(* Vocabulary of the dialogue properties *)

\* The users with a session
Live == {u \in DOMAIN sessions : sessions[u] # Absent}

\* A handle_message call has been made
HasHandled == handled.user \in DOMAIN sessions

\* The session of the user of the last call
Current == sessions[handled.user]

Stored(field) == Truthy(field)

\* An 11-digit TC is stored
StoredTc(s) == Stored(s.tc) /\ DigitCount(s.tc) = 11

\* The router was invoked in the last call
Routed == HasHandled /\ handled.route # "none"

\* C24: awaiting_tc implies a stored name; awaiting_address a stored name
\* and an 11-digit TC; awaiting_issue a stored name, TC and address; and
\* whenever the router is invoked the session holds name, TC and address.
C24_IntakeOrder ==
    /\ \A u \in Live :
        /\ sessions[u].stage \in {"awaiting_tc", "awaiting_address", "awaiting_issue"}
            => Stored(sessions[u].name)
        /\ sessions[u].stage \in {"awaiting_address", "awaiting_issue"}
            => StoredTc(sessions[u])
        /\ sessions[u].stage = "awaiting_issue" => Stored(sessions[u].address)
    /\ Routed =>
        /\ Stored(handled.at_route.name)
        /\ StoredTc(handled.at_route)
        /\ Stored(handled.at_route.address)

\* The router was invoked on the issue written after the address, in a
\* session that went through name, TC and address
C24_Witness ==
    /\ Routed
    /\ handled.at_route.stage = "awaiting_issue"
    /\ handled.at_route.name = <<"ali", "veli">>
    /\ handled.at_route.tc = <<"12345678901">>
    /\ handled.at_route.address = <<"mahalle", "sokak">>

EarlyStages == {"awaiting_category", "awaiting_name", "awaiting_tc"}

\* C25: after a message out of scope was handled in one of the first
\* three stages, the session is in awaiting_category and the message is
\* not its issue.
C25_OutOfScopeStaysOut ==
    ( /\ HasHandled
      /\ IsOutOfScopeOrAbuse(handled.text)
      /\ handled.entered.stage \in EarlyStages )
        => /\ Current.stage = "awaiting_category"
           /\ Current.issue # handled.text

\* The stored session of the user is older than a limit
Expired(u) ==
    /\ sessions[u] # Absent
    /\ \/ now - sessions[u].last_seen > ttl
       \/ now - sessions[u].last_seen > inactivity_timeout

SameDialogue(s, t) ==
    /\ s.stage = t.stage
    /\ s.name = t.name
    /\ s.tc = t.tc
    /\ s.address = t.address
    /\ s.issue = t.issue

\* C26: a message of a user whose session is older than the TTL or the
\* inactivity timeout is handled in a new session, in awaiting_category
\* with no name, TC, address or issue; a message within both limits is
\* handled in the stored session, with its stage and fields.
C26_ExpiryOpensFreshSession ==
    [][\A u \in Live :
        (now' = now /\ handled'.user = u /\ sessions'[u].last_seen = now
            /\ <<sessions, handled>>' # <<sessions, handled>>)
            => IF Expired(u)
               THEN /\ handled'.opened \in {"ttl", "inactivity"}
                    /\ SameDialogue(handled'.entered, NewSession(now))
               ELSE /\ handled'.opened = "no"
                    /\ SameDialogue(handled'.entered, sessions[u])]_vars

\* A session in the middle of the intake, within the TTL but over the
\* inactivity timeout, was replaced and the message handled in the new one
C26_Witness ==
    /\ HasHandled
    /\ handled.opened = "inactivity"
    /\ handled.reply # "welcome"
    /\ SameDialogue(handled.entered, NewSession(now))

\* C27: the reply to the first message of a new session is the welcome
\* message and the session is left in awaiting_category.
C27_NewSessionWelcomes ==
    (HasHandled /\ handled.opened # "no")
        => /\ handled.reply = "welcome"
           /\ Current.stage = "awaiting_category"


\* The step is a handle_message call of user u
HandlesFor(u) ==
    /\ now' = now
    /\ handled'.user = u
    /\ <<sessions, handled>>' # <<sessions, handled>>

SameCitizen(s, t) ==
    /\ s.name = t.name
    /\ s.tc = t.tc
    /\ s.address = t.address

\* What the last call left when the router returned
Finalized ==
    /\ (Routed /\ handled.route = "matched")
        => /\ Current.stage = "awaiting_followup"
           /\ Current.name = NoText
           /\ Current.tc = NoText
           /\ Current.address = NoText
           /\ Current.issue = NoText
    /\ (Routed /\ handled.route = "unmatched")
        => /\ Current.stage = "awaiting_issue"
           /\ SameCitizen(Current, handled.at_route)
           /\ Stored(Current.name)
           /\ Stored(Current.tc)
           /\ Stored(Current.address)

\* C28: a matched result leaves the session in awaiting_followup with
\* name, TC, address and issue cleared; an unmatched one leaves it in
\* awaiting_issue with name, TC and address kept, and the next message
\* of that session is given to the router as the issue, with the same
\* name, TC and address.
C28_FinalizeOutcomes ==
    [][/\ Finalized'
       /\ \A u \in Live :
            (HandlesFor(u) /\ sessions[u].stage = "awaiting_issue" /\ ~Expired(u))
                => /\ handled'.route # "none"
                   /\ handled'.routed = handled'.text
                   /\ SameCitizen(handled'.at_route, sessions[u])]_vars

\* An unmatched result was followed by a message that the router matched
C28_Witness ==
    /\ Routed
    /\ handled.route = "matched"
    /\ handled.entered.stage = "awaiting_issue"
    /\ handled.routed = <<"yol", "bozuk">>
    /\ Current.stage = "awaiting_followup"
    /\ Current.name = NoText

\* A valid address was received in awaiting_address
AddressGiven ==
    /\ HasHandled
    /\ handled.entered.stage = "awaiting_address"
    /\ IsValidAddress(handled.text)

\* C29 as stated: with a stored issue a valid address finalizes the
\* request with that issue without asking for one, and the session
\* enters awaiting_issue only when no issue is stored.
C29_Original ==
    AddressGiven =>
        IF Stored(handled.entered.issue)
        THEN /\ handled.routed = handled.entered.issue
             /\ handled.reply \notin {"ask_issue", "unclear_issue", "not_municipal"}
             /\ Current.stage # "awaiting_issue"
        ELSE /\ Current.stage = "awaiting_issue"
             /\ handled.reply = "ask_issue"

\* C29: with a stored issue a valid address gives that issue to the router
\* at once and the intake's issue question is not asked; after the address
\* the session enters awaiting_issue only when no issue is stored or the
\* router returns no match for the stored one.
C29_StoredIssueFinalizes ==
    AddressGiven =>
        IF Stored(handled.entered.issue)
        THEN /\ handled.route # "none"
             /\ handled.routed = handled.entered.issue
             /\ handled.reply # "ask_issue"
             /\ Current.stage = "awaiting_issue" <=> handled.route = "unmatched"
             /\ handled.route = "matched" => Current.stage = "awaiting_followup"
        ELSE /\ Current.stage = "awaiting_issue"
             /\ handled.reply = "ask_issue"
             /\ handled.route = "none"

\* The stored issue was given to the router on the address and not matched
C29_Witness ==
    /\ AddressGiven
    /\ handled.entered.issue = <<"yol", "bozuk">>
    /\ handled.routed = <<"yol", "bozuk">>
    /\ handled.route = "unmatched"
    /\ Current.stage = "awaiting_issue"

\* C30: a stored issue is not replaced by a message of the same session
\* unless that message finalizes the request with a match.
C30_StoredIssueKept ==
    [][\A u \in Live :
        ( /\ HandlesFor(u)
          /\ Stored(sessions[u].issue)
          /\ handled'.opened = "no"
          /\ handled'.route # "matched" )
            => sessions'[u].issue = sessions[u].issue]_vars


-----------------------------------------------------------------------------
(* The shortlist and the answer of the model *)

\* The ids of the candidates listed in the prompt
OfferedIds == {shortlist[i].id : i \in 1..Len(shortlist)}

\* C31: with LLM refinement enabled, the topic id of a matched result is
\* the id of one of the shortlist candidates offered to the model.
C31_MatchedIdWasOffered ==
    (Done /\ Refines /\ outcome.kind = "returned" /\ outcome.result.matched)
        => outcome.result.topic_id \in OfferedIds

\* C35: the clarification question of every RouteResult that route returns
\* is unset, also when the answer of the model carried one.
C35_NoClarificationQuestion ==
    (Done /\ outcome.kind = "returned")
        => outcome.result.clarification_question = NoneStr

\* A trusted answer that carried a question was returned without it
C35_Witness ==
    /\ Done /\ Refines /\ HasAnswer
    /\ Answer.clarification_question # NoneStr
    /\ ReturnedAnswer
    /\ outcome.result.clarification_question = NoneStr


-----------------------------------------------------------------------------
(* The identifiers of the sheet as numbers *)

\* The number an identifier cell denotes, in tenths, read from the sheet:
\* an int, a float, or a decimal string with a comma or a dot before at
\* most one fractional digit; ok is FALSE for any other cell
Denoted(cell) ==
    CASE cell.t = "int" -> [ok |-> TRUE, tenths |-> 10 * cell.n]
      [] cell.t = "float" -> [ok |-> TRUE, tenths |-> cell.n]
      [] cell.t = "str" ->
            LET text  == Strip(cell.s)
                seps  == {i \in 1..Len(text) : text[i] \in {",", "."}}
                sep   == IF seps = {} THEN Len(text) + 1
                         ELSE CHOOSE i \in seps : \A j \in seps : i <= j
                whole == SubSeq(text, 1, sep - 1)
                frac  == SubSeq(text, sep + 1, Len(text))
            IN  IF /\ whole # <<>>
                   /\ \A i \in 1..Len(whole) : IsDigit(whole[i])
                   /\ \A i \in 1..Len(frac) : IsDigit(frac[i])
                   /\ Len(frac) <= 1
                THEN [ok |-> TRUE,
                      tenths |-> 10 * DigitsVal(whole) + DigitsVal(frac)]
                ELSE [ok |-> FALSE, tenths |-> 0]
      [] OTHER -> [ok |-> FALSE, tenths |-> 0]

RowDenoted(j) == Denoted(source.rows[j].ID)

\* C34: the id of a retained record is the integer its source identifier
\* denotes; a row is dropped as repeating the id of a retained record
\* only when the two identifiers denote the same number; and a row whose
\* identifier denotes no number is not retained, while the load ends as
\* on the sheet without the rows that fail validation.
C34_IdIsTheDenotedInteger ==
    load_pc = "done" =>
        /\ Loaded =>
            /\ \A k \in Retained :
                /\ RowDenoted(loaded.kept[k]).ok
                /\ RowDenoted(loaded.kept[k]).tenths = 10 * loaded.topics[k].id
            /\ \A j \in SourceRows : \A k \in Retained :
                (Warned(j) /\ loaded.topics[k].id = RowId(j))
                    => RowDenoted(j).tenths = RowDenoted(loaded.kept[k]).tenths
            /\ \A j \in SourceRows : ~RowDenoted(j).ok => ~IsRetained(j)
        /\ loaded.kind = WithoutMalformed.kind
        /\ loaded.topics = WithoutMalformed.topics


-----------------------------------------------------------------------------
(* The sessions of several users and the webhook *)

\* C32: a handle_message call for a user leaves the session of every
\* other user as it was: stage, collected fields and last-seen time.
C32_OtherSessionsUntouched ==
    [][\A u \in DOMAIN sessions :
        (handled' # handled /\ handled'.user # u) => sessions'[u] = sessions[u]]_vars

\* A message of one user was handled while another user had an expired
\* session in the middle of the intake, which was left as it was
C32_Witness ==
    /\ HasHandled
    /\ \E u \in DOMAIN sessions :
        /\ u # handled.user
        /\ sessions[u].stage = "awaiting_tc"
        /\ now - sessions[u].last_seen > ttl
    /\ Current.last_seen = now

\* C33: an inbound webhook message makes exactly one handle_message call.
C33_OneCallPerInbound == HasHandled => handled.calls = 1

====
